---- MODULE Spec2Model ----
(***************************************************************************)
(* Model of weo.py: the module-level cell coercion `convert` and the WEO   *)
(* class, a read-only query object over the data frame `self._df` that     *)
(* pandas.read_csv loads from a tab-delimited World Economic Outlook file. *)
(*                                                                         *)
(* Python values.  A text whose characters the code inspects (a Country    *)
(* name, a year cell) is a sequence of one-character strings.  A text the  *)
(* code only compares for equality (a column header, an ISO code, a        *)
(* subject, a unit) is a TLA+ string.  pandas semantics are those of the   *)
(* pandas 1.x line the code is written for (freq='A', applymap, and row    *)
(* selection df['2018'] on a DatetimeIndex).                               *)
(***************************************************************************)
EXTENDS Integers, Sequences, FiniteSets, TLC

VARIABLES self_df, call, result

vars == <<self_df, call, result>>

(***************************************************************************)
(* Cell values as read_csv delivers them: a text, a float (integers are    *)
(* floats with scale 0; the value is mant / 10^scale, kept normalised), or *)
(* the missing-value marker NaN.                                           *)
(***************************************************************************)
NaN == [kind |-> "nan", s |-> <<>>, mant |-> 0, scale |-> 0]

Str(chars) == [kind |-> "str", s |-> chars, mant |-> 0, scale |-> 0]

Inf(sign) == [kind |-> "inf", s |-> <<>>, mant |-> sign, scale |-> 0]

RECURSIVE Float(_, _)
Float(m, sc) ==
    IF sc > 0 /\ m % 10 = 0
    THEN Float(m \div 10, sc - 1)
    ELSE [kind |-> "float", s |-> <<>>, mant |-> m, scale |-> sc]

isna(v) == v.kind = "nan"

(***************************************************************************)
(* Outcome of a Python call: a returned value, or a raised exception.      *)
(***************************************************************************)
Return(v) == [exc |-> "", msg |-> "", val |-> v]

Raise(e, m) == [exc |-> e, msg |-> m, val |-> [units |-> <<>>, provided |-> ""]]

(***************************************************************************)
(* str methods used by the code.                                           *)
(***************************************************************************)
Digits == <<"0", "1", "2", "3", "4", "5", "6", "7", "8", "9">>

Upper == <<"A", "B", "C", "D", "E", "F", "G", "H", "I", "J", "K", "L", "M",
           "N", "O", "P", "Q", "R", "S", "T", "U", "V", "W", "X", "Y", "Z">>

Lower == <<"a", "b", "c", "d", "e", "f", "g", "h", "i", "j", "k", "l", "m",
           "n", "o", "p", "q", "r", "s", "t", "u", "v", "w", "x", "y", "z">>

Whitespace == {" ", "\t"}

Range(f) == {f[i] : i \in DOMAIN f}

IsDigitChar(c) == c \in Range(Digits)

DigitVal(c) == (CHOOSE i \in DOMAIN Digits : Digits[i] = c) - 1

lowerChar(c) ==
    IF c \in Range(Upper)
    THEN Lower[CHOOSE i \in DOMAIN Upper : Upper[i] = c]
    ELSE c

\* str.lower()
lower(s) == [i \in DOMAIN s |-> lowerChar(s[i])]

\* c in x, for two texts
contains(x, c) ==
    \E i \in 0..(Len(x) - Len(c)) : SubSeq(x, i + 1, i + Len(c)) = c

\* x.replace(ch, "")
replace(x, ch) == SelectSeq(x, LAMBDA c : c # ch)

RECURSIVE strip(_)
strip(s) ==
    IF s = <<>> THEN s
    ELSE IF s[1] \in Whitespace THEN strip(Tail(s))
    ELSE IF s[Len(s)] \in Whitespace THEN strip(SubSeq(s, 1, Len(s) - 1))
    ELSE s

(***************************************************************************)
(* float(x).  For a text: surrounding whitespace is ignored, then an       *)
(* optional sign, then either a decimal numeral (digits with at most one   *)
(* point and at least one digit) or one of the words nan, inf, infinity in *)
(* any letter case; any other text raises ValueError.  Exponents and digit *)
(* separators "_" are outside the character set of the checked inputs.     *)
(* A float is returned as it is; a value that is neither a text nor a      *)
(* number raises TypeError.                                                *)
(***************************************************************************)
IsDecimal(body) ==
    /\ \A i \in DOMAIN body : IsDigitChar(body[i]) \/ body[i] = "."
    /\ \E i \in DOMAIN body : IsDigitChar(body[i])
    /\ Cardinality({i \in DOMAIN body : body[i] = "."}) <= 1

RECURSIVE Mantissa(_)
Mantissa(ds) ==
    IF ds = <<>> THEN 0
    ELSE 10 * Mantissa(SubSeq(ds, 1, Len(ds) - 1)) + DigitVal(ds[Len(ds)])

Scale(body) ==
    IF \E i \in DOMAIN body : body[i] = "."
    THEN Len(body) - (CHOOSE i \in DOMAIN body : body[i] = ".")
    ELSE 0

float_str(s) ==
    LET t == strip(s)
        signed == t # <<>> /\ t[1] \in {"+", "-"}
        sign == IF signed /\ t[1] = "-" THEN -1 ELSE 1
        body == IF signed THEN Tail(t) ELSE t
        word == lower(body)
    IN  IF IsDecimal(body)
        THEN Return(Float(sign * Mantissa(replace(body, ".")), Scale(body)))
        ELSE IF word = <<"n", "a", "n">>
        THEN Return(NaN)
        ELSE IF word \in {<<"i", "n", "f">>,
                          <<"i", "n", "f", "i", "n", "i", "t", "y">>}
        THEN Return(Inf(sign))
        ELSE Raise("ValueError", "could not convert string to float")

float(x) ==
    IF x.kind = "str" THEN float_str(x.s)
    ELSE IF x.kind \in {"float", "nan", "inf"} THEN Return(x)
    ELSE Raise("TypeError", "float() argument must be a string or a number")

(***************************************************************************)
(* convert(x), weo.py lines 12-18.                                         *)
(***************************************************************************)
convert_keep_commas(x) ==
    LET r == float(x)
    IN  IF r.exc = "ValueError" THEN Return(NaN) ELSE r

convert(x) ==
    LET x1 == IF x.kind = "str" /\ contains(x.s, <<",">>)
              THEN Str(replace(x.s, ","))
              ELSE x
        r == float(x1)
    IN  IF r.exc = "ValueError" THEN Return(NaN) ELSE r

(***************************************************************************)
(* Data frames.  self._df is [columns, rows]: the header row of the file   *)
(* and one tuple of values per data row, aligned with the headers.  Year   *)
(* cells and Country hold cell values (above); the other columns hold      *)
(* TLA+ strings.                                                           *)
(* A pivoted frame (the result of get) is [index, columns, data] with      *)
(* data[i][j] the value at row label index[i] and column columns[j].       *)
(***************************************************************************)
LATEST_YEAR == 2024

DigitHeaders == {ToString(n) : n \in 0..2100}

\* str.isdigit() of a column header
isdigit(h) == h \in DigitHeaders

RECURSIVE unique(_)
\* Series.unique() / DataFrame.drop_duplicates(): first occurrences, in order
unique(seq) ==
    IF seq = <<>> THEN <<>>
    ELSE LET init == SubSeq(seq, 1, Len(seq) - 1)
             last == seq[Len(seq)]
         IN  IF \E i \in DOMAIN init : init[i] = last
             THEN unique(init)
             ELSE Append(unique(init), last)

\* the value of row r of a frame in the column named h
value(frame, r, h) == r[CHOOSE i \in DOMAIN frame.columns : frame.columns[i] = h]

\* frame[col] as a list of values
column(frame, col) == [i \in DOMAIN frame.rows |-> value(frame, frame.rows[i], col)]

\* frame[ix]: the rows at the positions where the boolean list ix is true,
\* in order
filter(frame, ix) ==
    LET at == SelectSeq([i \in DOMAIN frame.rows |-> i], LAMBDA i : ix[i])
    IN  [frame EXCEPT !.rows = <<>> \o [k \in DOMAIN at |-> frame.rows[at[k]]]]

\* WEO.years, lines 46-48
years(raw) == SelectSeq(raw.columns, isdigit)

\* WEO.df, lines 50-53
df(raw) ==
    LET ix == [i \in DOMAIN raw.rows |-> isna(value(raw, raw.rows[i], "Country"))]
    IN  filter(raw, [i \in DOMAIN ix |-> ~ix[i]])

\* WEO.countries_df, lines 55-58
country_cols == <<"WEO Country Code", "ISO", "Country">>

countries_df(raw) ==
    [columns |-> country_cols,
     rows |-> unique([i \in DOMAIN raw.rows |->
                        [k \in DOMAIN country_cols |->
                           value(raw, raw.rows[i], country_cols[k])]])]

\* WEO.variables, lines 60-61
variables(raw) == unique(column(df(raw), "Subject Descriptor"))

(***************************************************************************)
(* Arguments that may be a str, a list of str, or None.                    *)
(***************************************************************************)
PyStr(s) == [type |-> "str", v |-> <<s>>]

PyList(l) == [type |-> "list", v |-> l]

PyNone == [type |-> "NoneType", v |-> <<>>]

\* truthiness of such an argument
truthy(a) ==
    IF a.type = "str" THEN a.v[1] # "" ELSE IF a.type = "list" THEN a.v # <<>> ELSE FALSE

\* WEO.by_subject, lines 63-68
by_subject_any(raw, subjects) == df(raw)

by_subject(raw, subjects) ==
    LET names == Range(subjects.v)
        rows == df(raw)
        ix == [i \in DOMAIN rows.rows |->
                 value(rows, rows.rows[i], "Subject Descriptor") \in names]
    IN  filter(rows, ix)

\* WEO.units, lines 70-72
units(raw, subject) ==
    LET sub == IF truthy(subject) THEN by_subject(raw, subject) ELSE df(raw)
    IN  unique(column(sub, "Units"))

(***************************************************************************)
(* pd.date_range(start=str(first), end=str(last), freq='A'): the year-end  *)
(* dates d with first-01-01 <= d <= last-01-01.                            *)
(***************************************************************************)
YearEnd(y) == [year |-> y, month |-> 12, day |-> 31]

date_range_closed(first, last) ==
    [i \in 1..(IF last >= first THEN last - first + 1 ELSE 0) |-> YearEnd(first + i - 1)]

date_range(first, last) ==
    [i \in 1..(IF last > first THEN last - first ELSE 0) |-> YearEnd(first + i - 1)]

\* frame[cols].set_index('ISO').transpose()
pivot(frame, cols) ==
    [index |-> cols,
     columns |-> column(frame, "ISO"),
     data |-> [i \in DOMAIN cols |->
                 [j \in DOMAIN frame.rows |-> value(frame, frame.rows[j], cols[i])]]]

\* the outcome of a cell-wise map whose cell outcomes are out: the first
\* exception raised, going row by row, or else the frame of the values
mapped(frame, out) ==
    LET bad == {ij \in (DOMAIN out) \X (DOMAIN frame.columns) :
                  out[ij[1]][ij[2]].exc # ""}
    IN  IF bad # {}
        THEN LET ij == CHOOSE ij \in bad :
                         \A kl \in bad : ij[1] < kl[1]
                                         \/ (ij[1] = kl[1] /\ ij[2] <= kl[2])
             IN  out[ij[1]][ij[2]]
        ELSE Return([frame EXCEPT !.data =
                       [i \in DOMAIN out |->
                          [j \in DOMAIN out[i] |-> out[i][j].val]]])

\* frame.applymap(convert)
applymap(frame) ==
    mapped(frame, [i \in DOMAIN frame.data |->
                     [j \in DOMAIN frame.data[i] |-> convert(frame.data[i][j])]])

(***************************************************************************)
(* WEO.get, lines 74-86.  The unit test comes first; then the pivot, whose *)
(* row labels are the year headers; then the assignment of the fixed date  *)
(* range to the row axis, which pandas refuses (ValueError, length         *)
(* mismatch) unless the frame has as many rows as the range has dates, and *)
(* which replaces the labels position by position; then the coercion.      *)
(***************************************************************************)
\* ValueError(f"Unit must be one of {units}, provided: {unit}")
InvalidUnit(us, unit) ==
    [exc |-> "ValueError", msg |-> "Unit must be one of",
     val |-> [units |-> us, provided |-> unit]]

set_index(frame, labels) ==
    IF Len(labels) # Len(frame.index)
    THEN Raise("ValueError", "Length mismatch")
    ELSE Return([frame EXCEPT !.index = labels])

get(raw, subject, unit) ==
    LET sub == by_subject(raw, PyStr(subject))
        us == unique(column(sub, "Units"))
        eq == [i \in DOMAIN sub.rows |-> value(sub, sub.rows[i], "Units") = unit]
        piv == pivot(filter(sub, eq), years(raw))
        dated == set_index(piv, date_range(1980, LATEST_YEAR + 1))
    IN  IF unit \notin Range(us)
        THEN InvalidUnit(us, unit)
        ELSE IF dated.exc # "" THEN dated
        ELSE applymap(dated.val)

(***************************************************************************)
(* WEO.find_countries, lines 88-93.  The lambda calls x.lower() on every   *)
(* Country value of countries_df; on a missing value (a float) that raises *)
(* AttributeError.                                                         *)
(***************************************************************************)
find_countries(raw, name) ==
    LET c == lower(name)
        cdf == countries_df(raw)
    IN  IF \E i \in DOMAIN cdf.rows : value(cdf, cdf.rows[i], "Country").kind # "str"
        THEN Raise("AttributeError", "'float' object has no attribute 'lower'")
        ELSE Return(filter(cdf, [i \in DOMAIN cdf.rows |->
                       contains(lower(value(cdf, cdf.rows[i], "Country").s), c)]))

\* WEO.iso_code, lines 95-97
iso_code(raw, country) ==
    LET found == find_countries(raw, country)
    IN  IF found.exc # "" THEN found
        ELSE IF found.val.rows = <<>>
        THEN Raise("IndexError", "single positional indexer is out-of-bounds")
        ELSE Return(value(found.val, found.val.rows[1], "ISO"))

(***************************************************************************)
(* Order of float values, for sort_values.                                 *)
(***************************************************************************)
RECURSIVE Pow10(_)
Pow10(n) == IF n = 0 THEN 1 ELSE 10 * Pow10(n - 1)

\* a < b for two values that are floats or infinities
Less(a, b) ==
    IF a.kind = "inf" THEN a.mant < 0 /\ ~(b.kind = "inf" /\ b.mant < 0)
    ELSE IF b.kind = "inf" THEN b.mant > 0
    ELSE a.mant * Pow10(b.scale) < b.mant * Pow10(a.scale)

(***************************************************************************)
(* WEO.gdp_usd, lines 99-104.  frame[str(year)] selects the rows whose     *)
(* date lies in that year (a column of that name would be selected         *)
(* instead, and a year with no date raises KeyError); the transpose and    *)
(* iloc[:, 0] give the first selected row as a Series over the ISO codes;  *)
(* sort_values(ascending=False) uses the default kind, quicksort, which is *)
(* not a stable sort: the result is any arrangement with the numbers in    *)
(* non-increasing order followed by the missing values in their original   *)
(* order.  The operator gives the set of outcomes.                         *)
(***************************************************************************)
Arrangements(n) ==
    {p \in [1..n -> 1..n] : \A i, j \in 1..n : i # j => p[i] # p[j]}

sort_values_ascending(ser) ==
    {p \in Arrangements(Len(ser)) :
        \A i, j \in DOMAIN ser : i < j =>
            LET a == ser[p[i]].val
                b == ser[p[j]].val
            IN  IF isna(a) THEN isna(b) /\ p[i] < p[j]
                ELSE isna(b) \/ ~Less(b, a)}

\* the orders sort_values(ascending=False) can produce, as permutations
sort_values(ser) ==
    {p \in Arrangements(Len(ser)) :
        \A i, j \in DOMAIN ser : i < j =>
            LET a == ser[p[i]].val
                b == ser[p[j]].val
            IN  IF isna(a) THEN isna(b) /\ p[i] < p[j]
                ELSE isna(b) \/ ~Less(a, b)}

GDP == "Gross domestic product, current prices"

USD == "U.S. dollars"

gdp_usd(raw, year) ==
    LET got == get(raw, GDP, USD)
        key == ToString(year)
        frame == got.val
        hits == {i \in DOMAIN frame.index : ToString(frame.index[i].year) = key}
        first == CHOOSE i \in hits : \A k \in hits : i <= k
        ser == [j \in DOMAIN frame.columns |->
                  [iso |-> frame.columns[j], val |-> frame.data[first][j]]]
    IN  IF got.exc # "" THEN {got}
        ELSE IF key \in Range(frame.columns)
        THEN {Raise("IndexingError", "Too many indexers")}
        ELSE IF hits = {} THEN {Raise("KeyError", key)}
        ELSE {Return([i \in DOMAIN ser |-> ser[p[i]]]) : p \in sort_values(ser)}

\* WEO.libor_usd, lines 106-108
LIBOR == "Six-month London interbank offered rate (LIBOR)"

libor_usd(raw) ==
    LET got == get(raw, LIBOR, "Percent")
        frame == got.val
        cols == {j \in DOMAIN frame.columns : frame.columns[j] = "USA"}
        keep == SelectSeq([j \in DOMAIN frame.columns |-> j], LAMBDA j : j \in cols)
    IN  IF got.exc # "" THEN got
        ELSE IF cols = {} THEN Raise("KeyError", "USA")
        ELSE Return([index |-> frame.index,
                     columns |-> [k \in DOMAIN keep |-> frame.columns[keep[k]]],
                     data |-> [i \in DOMAIN frame.data |->
                                 [k \in DOMAIN keep |-> frame.data[i][keep[k]]]]])

(***************************************************************************)
(* Inputs: the source files the model is checked on.  A file has the five  *)
(* identifying columns, the year columns of one of the layouts below, and  *)
(* the trailing "Estimates Start After" column; its rows are drawn from    *)
(* RowChoices.  NA is the missing marker in the columns held as strings    *)
(* (read_csv turns a blank field into a missing value).                    *)
(***************************************************************************)
MaxRows == 2

MaxTextLen == 3

NA == "NaN"

WindowLen == LATEST_YEAR - 1980 + 1

Ascending(first, n) == [i \in 1..n |-> first + i - 1]

\* the year columns of a file, in file order
Descending(last, n) == [i \in 1..n |-> last - i + 1]

YearLayouts ==
    {Ascending(1980, WindowLen), Ascending(1981, WindowLen),
     Ascending(1980, WindowLen - 1), Ascending(1979, WindowLen + 1),
     Descending(LATEST_YEAR, WindowLen)}

Columns(layout) ==
    <<"WEO Country Code", "ISO", "Country", "Subject Descriptor", "Units">>
    \o [i \in DOMAIN layout |-> ToString(layout[i])]
    \o <<"Estimates Start After">>

RECURSIVE DigitsOf(_)
\* the decimal numeral of a natural number
DigitsOf(n) ==
    IF n < 10 THEN <<Digits[n + 1]>>
    ELSE Append(DigitsOf(n \div 10), Digits[(n % 10) + 1])

\* a numeral of 1000..999999 with a comma before the last three digits
Grouped(n) ==
    DigitsOf(n \div 1000) \o <<",">>
    \o SubSeq(DigitsOf(1000 + (n % 1000)), 2, 4)

UnitedStates == <<"U", "n", "i", "t", "e", "d", " ", "S", "t", "a", "t", "e", "s">>

UnitedKingdom == <<"U", "n", "i", "t", "e", "d", " ", "K", "i", "n", "g", "d", "o", "m">>

China == <<"C", "h", "i", "n", "a">>

DEBT == "General government gross debt"

Footer == "International Monetary Fund, World Economic Outlook Database, October 2019"

Template(code, iso, country, subject, unit, style, base) ==
    [code |-> code, iso |-> iso, country |-> country, subject |-> subject,
     unit |-> unit, style |-> style, base |-> base]

RowChoices ==
    {Template("111", "USA", Str(UnitedStates), GDP, USD, "grouped", 20000),
     Template("924", "CHN", Str(China), GDP, USD, "number", 13000),
     Template("112", "GBR", Str(UnitedKingdom), GDP, USD, "late", 20000),
     Template("111", "USA", Str(UnitedStates), DEBT, USD, "decimal", 0),
     Template("112", "GBR", Str(UnitedKingdom), DEBT, "Percent of GDP", "sparse", 0),
     Template("111", "USA", Str(UnitedStates), LIBOR, "Percent", "decimal", 0),
     Template(Footer, NA, NaN, NA, NA, "blank", 0),
     Template("924", "CHN", NaN, DEBT, "National currency", "number", 50)}

\* the cell of a row in the column of year y
YearCell(tmpl, y) ==
    CASE tmpl.style = "grouped" -> Str(Grouped(tmpl.base + (y - 2018)))
      [] tmpl.style = "number" -> Float(tmpl.base + (y - 2018), 0)
      [] tmpl.style = "late" ->
            IF y < 2000 THEN Str(<<"-", "-">>) ELSE Float(tmpl.base + (y - 2018), 0)
      [] tmpl.style = "decimal" -> Str(DigitsOf(y) \o <<".", "5">>)
      [] tmpl.style = "sparse" ->
            IF y < 2000 THEN Str(<<"n", "/", "a">>) ELSE Str(DigitsOf(y - 1900))
      [] OTHER -> NaN

MakeRow(tmpl, layout) ==
    <<tmpl.code, tmpl.iso, tmpl.country, tmpl.subject, tmpl.unit>>
    \o [i \in DOMAIN layout |-> YearCell(tmpl, layout[i])]
    \o <<NA>>

SourceFiles ==
    {[columns |-> Columns(layout),
      rows |-> <<>> \o [i \in DOMAIN ts |-> MakeRow(ts[i], layout)]] :
        layout \in YearLayouts,
        ts \in UNION {[1..n -> RowChoices] : n \in 1..MaxRows}}

SubjectArgs == {GDP, DEBT, LIBOR, "Unemployment rate"}

UnitArgs == {USD, "National currency", "Percent of GDP", "Percent"}

SubjectsArgs ==
    {PyStr(s) : s \in SubjectArgs} \cup {PyList(<<GDP, DEBT>>)}

UnitsArgs == {PyNone, PyStr(""), PyStr(GDP), PyStr(DEBT)}

NameArgs ==
    {<<"u", "n", "i", "t", "e", "d">>, <<"U", "N", "I", "T", "E", "D">>,
     <<"c", "h", "i", "n", "a">>, <<"U", "n">>, <<"z", "z">>, <<>>}

YearArgs == {1980, 2018, LATEST_YEAR}

Alphabet == {"1", "5", ",", ".", "-", "n", "a", " "}

CellInputs ==
    {Str(s) : s \in UNION {[1..n -> Alphabet] : n \in 0..MaxTextLen}}
    \cup {Str(<<"1", ",", "2", "3", "4", ".", "5">>), Str(<<"n", "/", "a">>),
          Str(<<"-", "-">>), Str(<<"2", "0", ",", "0", "0", "0">>),
          Str(<<"-", "1", ",", "5", "0", "0">>), Str(<<"I", "n", "f">>)}
    \cup {NaN, Float(0, 0), Float(13000, 0), Float(-25, 1), Inf(1)}

(***************************************************************************)
(* The state: self._df of the one WEO object, and the call in progress     *)
(* with its outcome.  Init is the state after WEO(filename) has returned.  *)
(* The program is single-threaded: a call is made when no call is in       *)
(* progress, and Done is the caller taking the outcome, after which the    *)
(* next call can be made.  call holds the operation and its arguments;     *)
(* result holds the exception raised, if any, and the returned value in    *)
(* the field of its type (list, frame, series, text, cell or ranking).     *)
(***************************************************************************)
NoFrame == [columns |-> <<>>, rows |-> <<>>]

NoSeries == [index |-> <<>>, columns |-> <<>>, data |-> <<>>]

NoCall ==
    [op |-> "", subjects |-> PyNone, subject |-> "", unit |-> "", name |-> <<>>,
     year |-> 0, x |-> NaN]

NoResult ==
    [exc |-> "", msg |-> "", info |-> [units |-> <<>>, provided |-> ""],
     list |-> <<>>, frame |-> NoFrame, series |-> NoSeries, text |-> "",
     cell |-> NaN, ranking |-> <<>>]

Store(field, outcome) ==
    IF outcome.exc # ""
    THEN [NoResult EXCEPT !.exc = outcome.exc, !.msg = outcome.msg, !.info = outcome.val]
    ELSE [NoResult EXCEPT ![field] = outcome.val]

Init ==
    /\ self_df \in SourceFiles
    /\ call = NoCall
    /\ result = NoResult

Call(made, field, outcome) ==
    /\ call = NoCall
    /\ call' = made
    /\ result' = Store(field, outcome)
    /\ self_df' = self_df

Years == Call([NoCall EXCEPT !.op = "years"], "list", Return(years(self_df)))

Df == Call([NoCall EXCEPT !.op = "df"], "frame", Return(df(self_df)))

CountriesDf ==
    Call([NoCall EXCEPT !.op = "countries_df"], "frame", Return(countries_df(self_df)))

Variables ==
    Call([NoCall EXCEPT !.op = "variables"], "list", Return(variables(self_df)))

BySubject(subjects) ==
    Call([NoCall EXCEPT !.op = "by_subject", !.subjects = subjects], "frame",
         Return(by_subject(self_df, subjects)))

Units(subject) ==
    Call([NoCall EXCEPT !.op = "units", !.subjects = subject], "list",
         Return(units(self_df, subject)))

GetInPlace(subject, unit) ==
    /\ call = NoCall
    /\ call' = [NoCall EXCEPT !.op = "get", !.subject = subject, !.unit = unit]
    /\ result' = Store("series", get(self_df, subject, unit))
    /\ self_df' = LET sub == by_subject(self_df, PyStr(subject))
                  IN  filter(sub, [i \in DOMAIN sub.rows |->
                                     value(sub, sub.rows[i], "Units") = unit])

Get(subject, unit) ==
    Call([NoCall EXCEPT !.op = "get", !.subject = subject, !.unit = unit], "series",
         get(self_df, subject, unit))

FindCountries(name) ==
    Call([NoCall EXCEPT !.op = "find_countries", !.name = name], "frame",
         find_countries(self_df, name))

IsoCode(country) ==
    Call([NoCall EXCEPT !.op = "iso_code", !.name = country], "text",
         iso_code(self_df, country))

GdpUsd(year) ==
    /\ call = NoCall
    /\ \E outcome \in gdp_usd(self_df, year) :
          Call([NoCall EXCEPT !.op = "gdp_usd", !.year = year], "ranking", outcome)

LiborUsd == Call([NoCall EXCEPT !.op = "libor_usd"], "series", libor_usd(self_df))

Done ==
    /\ call # NoCall
    /\ call' = NoCall
    /\ result' = NoResult
    /\ self_df' = self_df

Next ==
    \/ Years
    \/ Df
    \/ CountriesDf
    \/ Variables
    \/ \E s \in SubjectsArgs : BySubject(s)
    \/ \E s \in UnitsArgs : Units(s)
    \/ \E s \in SubjectArgs, u \in UnitArgs : Get(s, u)
    \/ \E n \in NameArgs : FindCountries(n)
    \/ \E n \in NameArgs : IsoCode(n)
    \/ \E y \in YearArgs : GdpUsd(y)
    \/ LiborUsd
    \/ Done

Spec == Init /\ [][Next]_vars

(***************************************************************************)
(* convert on its own: the inputs are drawn from CellInputs.               *)
(***************************************************************************)
InitConvert ==
    /\ self_df = NoFrame
    /\ call = NoCall
    /\ result = NoResult

Convert(x) == Call([NoCall EXCEPT !.op = "convert", !.x = x], "cell", convert(x))

NextConvert == (\E x \in CellInputs : Convert(x)) \/ Done

SpecConvert == InitConvert /\ [][NextConvert]_vars

(***************************************************************************)
(* What the properties below refer to, read off the source rows directly.  *)
(***************************************************************************)
\* the value of the i-th source row in the column named h
Source(i, h) == value(self_df, self_df.rows[i], h)

\* the positions of the source rows that have a country
Present == {i \in DOMAIN self_df.rows : Source(i, "Country").kind = "str"}

\* the positions of the source rows of an indicator (and of a unit)
RowsOf(subject) == {i \in Present : Source(i, "Subject Descriptor") = subject}

RowsOfUnit(subject, unit) == {i \in RowsOf(subject) : Source(i, "Units") = unit}

Observed(subject) == {Source(i, "Units") : i \in RowsOf(subject)}

\* the positions in a set, in increasing order
InOrder(S) == SelectSeq([i \in DOMAIN self_df.rows |-> i], LAMBDA i : i \in S)

NoRepeats(seq) == \A i, j \in DOMAIN seq : i # j => seq[i] # seq[j]

\* C1: get(indicator, unit) with a unit not observed on the rows of that
\* indicator raises the invalid-unit error and returns no Series; the error
\* lists exactly the units observed for that indicator, each once.
C1_InvalidUnitRejected ==
    (call.op = "get" /\ call.unit \notin Observed(call.subject)) =>
        /\ result.exc = "ValueError"
        /\ result.msg = "Unit must be one of"
        /\ result.info.provided = call.unit
        /\ Range(result.info.units) = Observed(call.subject)
        /\ NoRepeats(result.info.units)
        /\ result.series = NoSeries

\* a unit rejected for one indicator although another indicator of the file has it
C1_Witness ==
    /\ call.op = "get"
    /\ result.exc = "ValueError"
    /\ result.msg = "Unit must be one of"
    /\ Observed(call.subject) # {}
    /\ \E s \in SubjectArgs : call.unit \in Observed(s)

\* C2: for every indicator of variables(), units(indicator) is non-empty and
\* get(indicator, u) returns a Series for every u of units(indicator),
\* whatever the number of year columns.
C2_GetSucceedsOnValidPair ==
    /\ (call.op = "units" /\ call.subjects.type = "str"
        /\ \E s \in Range(call.subjects.v) : RowsOf(s) # {}) => result.list # <<>>
    /\ (call.op = "get" /\ call.unit \in Observed(call.subject)) => result.exc = ""

\* C3: a source row without a country contributes nothing to countries_df
\* (and so to find_countries), variables(), units() or the columns of get().
C3_MissingCountryExcluded ==
    /\ call.op = "countries_df" =>
          \A i \in DOMAIN result.frame.rows :
              value(result.frame, result.frame.rows[i], "Country").kind = "str"
    /\ call.op = "find_countries" =>
          /\ result.exc = ""
          /\ \A i \in DOMAIN result.frame.rows :
                value(result.frame, result.frame.rows[i], "Country").kind = "str"
    /\ call.op = "variables" =>
          Range(result.list) = {Source(i, "Subject Descriptor") : i \in Present}
    /\ (call.op = "units" /\ call.subjects.type = "NoneType") =>
          Range(result.list) = {Source(i, "Units") : i \in Present}
    /\ (call.op = "get" /\ result.exc = "") =>
          Len(result.series.columns) = Cardinality(RowsOfUnit(call.subject, call.unit))

\* the dates of the fixed window: one year end per year, 1980 to LATEST_YEAR
WindowDates ==
    [i \in 1..(LATEST_YEAR - 1980 + 1) |-> [year |-> 1979 + i, month |-> 12, day |-> 31]]

\* C4: a Series returned by get(indicator, unit) has LATEST_YEAR - 1980 + 1
\* rows, dated with the year ends of 1980 to LATEST_YEAR in order, and its
\* columns are the ISO codes of the source rows of that indicator and unit
\* that have a country, in source order.
C4_SeriesShape ==
    (call.op = "get" /\ result.exc = "") =>
        LET at == InOrder(RowsOfUnit(call.subject, call.unit))
        IN  /\ Len(result.series.index) = LATEST_YEAR - 1980 + 1
            /\ result.series.index = WindowDates
            /\ result.series.columns = [k \in DOMAIN at |-> Source(at[k], "ISO")]
            /\ Len(result.series.data) = Len(result.series.index)
            /\ \A i \in DOMAIN result.series.data :
                  Len(result.series.data[i]) = Len(result.series.columns)

\* a Series with the columns of two different countries
C4_Witness ==
    /\ call.op = "get"
    /\ result.exc = ""
    /\ Len(result.series.columns) = 2
    /\ result.series.columns[1] # result.series.columns[2]

OnlyDigitsAndCommas(s) ==
    /\ \A i \in DOMAIN s : IsDigitChar(s[i]) \/ s[i] = ","
    /\ \E i \in DOMAIN s : IsDigitChar(s[i])

\* C5: convert never raises and always returns a number or the missing-value
\* marker: a number is returned unchanged, a blank cell and a text holding no
\* digit give the marker (or an infinity, for the word inf), a text of digits
\* and commas gives the number its digits spell, and "1,234.5" gives 1234.5.
C5_ConvertTotal ==
    call.op = "convert" =>
        /\ result.exc = ""
        /\ result.cell.kind \in {"float", "nan", "inf"}
        /\ call.x.kind # "str" => result.cell = call.x
        /\ (call.x.kind = "str" /\ \A i \in DOMAIN call.x.s : ~IsDigitChar(call.x.s[i])) =>
              result.cell.kind \in {"nan", "inf"}
        /\ (call.x.kind = "str" /\ OnlyDigitsAndCommas(call.x.s)) =>
              result.cell = [kind |-> "float", s |-> <<>>,
                             mant |-> Mantissa(SelectSeq(call.x.s, IsDigitChar)),
                             scale |-> 0]
        /\ call.x = Str(<<"1", ",", "2", "3", "4", ".", "5">>) =>
              result.cell = [kind |-> "float", s |-> <<>>, mant |-> 12345, scale |-> 1]
        /\ call.x = Str(<<"n", "/", "a">>) => result.cell = NaN

\* convert("1,234.5") has returned 1234.5
C5_Witness ==
    /\ call.op = "convert"
    /\ call.x = Str(<<"1", ",", "2", "3", "4", ".", "5">>)
    /\ result.cell = [kind |-> "float", s |-> <<>>, mant |-> 12345, scale |-> 1]

\* countries(): the distinct (code, ISO, name) of the source rows that have a
\* country, in order of first appearance
Countries ==
    LET at == InOrder(Present)
    IN  unique([k \in DOMAIN at |->
                  <<Source(at[k], "WEO Country Code"), Source(at[k], "ISO"),
                    Source(at[k], "Country")>>])

\* the entries of countries() whose name contains the text, letter case ignored
Matching(name) ==
    SelectSeq(Countries, LAMBDA e : contains(lower(e[3].s), lower(name)))

\* C6: in a file whose rows all have a country, iso_code(name) returns the ISO
\* code of the first entry of find_countries(name), and raises an explicit
\* country-not-found error when there is no such entry.
C6_IsoCodeNotFound ==
    (call.op = "iso_code" /\ Present = DOMAIN self_df.rows) =>
        IF Matching(call.name) # <<>>
        THEN result.exc = "" /\ result.text = Matching(call.name)[1][2]
        ELSE result.exc = "CountryNotFoundError"

\* the Series get(GDP, USD) at the row dated in a year, as (ISO, value) entries
GdpEntries(year) ==
    LET g == get(self_df, GDP, USD).val
        i == CHOOSE i \in DOMAIN g.index : g.index[i].year = year
    IN  [j \in DOMAIN g.columns |-> [iso |-> g.columns[j], val |-> g.data[i][j]]]

\* numbers in non-increasing order, then the missing values
Decreasing(r) ==
    \A i, j \in DOMAIN r : i < j =>
        IF isna(r[i].val) THEN isna(r[j].val)
        ELSE isna(r[j].val) \/ ~Less(r[i].val, r[j].val)

Tied(a, b) == IF isna(a) \/ isna(b) THEN isna(a) /\ isna(b) ELSE ~Less(a, b) /\ ~Less(b, a)

\* C7 as stated: gdp_usd(year) holds one entry per column of get(GDP, USD),
\* with the value of the requested year, by value descending, entries of equal
\* value in source order.
C7_StableDescending ==
    (call.op = "gdp_usd" /\ result.exc = "") =>
        \E p \in Arrangements(Len(GdpEntries(call.year))) :
            /\ result.ranking = [i \in DOMAIN p |-> GdpEntries(call.year)[p[i]]]
            /\ Decreasing(result.ranking)
            /\ \A i, j \in DOMAIN p :
                  (i < j /\ Tied(result.ranking[i].val, result.ranking[j].val))
                      => p[i] < p[j]

\* The ordering of gdp_usd apart from ties: the entries of get(GDP, USD) for
\* the year, numbers in non-increasing order, missing values last.
C7_Descending ==
    (call.op = "gdp_usd" /\ result.exc = "") =>
        \E p \in Arrangements(Len(GdpEntries(call.year))) :
            /\ result.ranking = [i \in DOMAIN p |-> GdpEntries(call.year)[p[i]]]
            /\ Decreasing(result.ranking)

\* gdp_usd(2018) on USA = 20,000 and CHN = 13000, in either source order
C7_Witness ==
    /\ call.op = "gdp_usd"
    /\ call.year = 2018
    /\ Source(1, "ISO") = "CHN"
    /\ result.ranking =
          <<[iso |-> "USA", val |-> [kind |-> "float", s |-> <<>>, mant |-> 20000, scale |-> 0]],
            [iso |-> "CHN", val |-> [kind |-> "float", s |-> <<>>, mant |-> 13000, scale |-> 0]]>>

\* C8: find_countries(name) succeeds on every file and returns exactly the
\* entries of countries() whose name contains name, letter case ignored.
C8_FindCountries ==
    call.op = "find_countries" =>
        /\ result.exc = ""
        /\ result.frame.rows = Matching(call.name)

\* C9: no operation changes self._df, whether it returns or raises.
C9_TableUnchanged == [][self_df' = self_df]_vars

\* a get that raised, and a get that returned, on a loaded file
C9_Witness ==
    /\ call.op = "get"
    /\ result.exc = "ValueError"
    /\ self_df \in SourceFiles

\* C10: in a Series returned by get, the value at the row dated in year Y and
\* the column of a source row is the coerced cell of that source row in the
\* year column headed Y.
C10_ValueAtItsYear ==
    (call.op = "get" /\ result.exc = "") =>
        LET at == InOrder(RowsOfUnit(call.subject, call.unit))
        IN  \A i \in DOMAIN result.series.index :
                LET h == ToString(result.series.index[i].year)
                IN  /\ h \in Range(self_df.columns)
                    /\ \A k \in DOMAIN at :
                          result.series.data[i][k] = convert(Source(at[k], h)).val

====
